---------------------------- MODULE Spec2Model ----------------------------
(***************************************************************************)
(* The value family of the expression engine (value.js): the eleven value  *)
(* classes, their constructors, equal() and run(); and the generators of   *)
(* the data blocks (blocks/data.js).                                       *)
(***************************************************************************)
EXTENDS Integers, Sequences, FiniteSets, TLC

\* ---------------------------------------------------------------- bounds
\* Finite numbers used as payloads are -1 .. MaxNum.
MaxNum == 2
\* Tables passed to run() have 0 .. MaxRows rows.
MaxRows == 2
\* A generator is drawn from at most MaxDraws times.
MaxDraws == 2
\* A text field of a block holds at most MaxLen characters.
MaxLen == 3
\* A number field of a block holds -1 .. MaxValue.
MaxValue == 10

\* ------------------------------------------------- JavaScript primitives
\* A JavaScript value used as a payload: its runtime kind, and its number
\* or string content.  NaN is a value of kind "number".
Prim(ty, num, str, nan) == [ty |-> ty, num |-> num, str |-> str, nan |-> nan]

MISSING == Prim("null", 0, "", FALSE)
UNDEFINED == Prim("undefined", 0, "", FALSE)
Bool(b) == Prim("boolean", IF b THEN 1 ELSE 0, "", FALSE)
Num(n) == Prim("number", n, "", FALSE)
NaN == Prim("number", 0, "", TRUE)
Str(s) == Prim("string", 0, s, FALSE)
DateOf(t) == Prim("date", t, "", FALSE)

\* The one string of the model that converts to a date, and its date.
DateString == "2020-01-01"
DateOfString == DateOf(1)

FiniteNums == {Num(n) : n \in -1 .. MaxNum}
Numbers == FiniteNums \cup {NaN}
Strings == {Str(""), Str("a"), Str("b"), Str(DateString)}
Dates == {DateOfString}
Prims == {MISSING, UNDEFINED, Bool(TRUE), Bool(FALSE)} \cup Numbers \cup Strings \cup Dates
\* Arguments tried on the two-parameter constructors.
PairArgs == {MISSING, Str("a")} \cup Numbers

\* typeof x
TypeOf(x) == IF x.ty \in {"null", "date", "object"} THEN "object" ELSE x.ty

\* x used as a condition: false, 0, NaN, "", null and undefined are falsy.
Truthy(x) ==
  CASE x.ty \in {"null", "undefined"} -> FALSE
    [] x.ty = "boolean" -> x.num = 1
    [] x.ty = "number" -> ~x.nan /\ x.num # 0
    [] x.ty = "string" -> x.str # ""
    [] OTHER -> TRUE

\* a === b on numbers: NaN is not equal to anything, itself included.
StrictEqual(a, b) == ~a.nan /\ ~b.nan /\ a = b
\* a <= b, a > b, a >= b on numbers: every comparison with NaN is false.
LessEq(a, b) == ~a.nan /\ ~b.nan /\ a.num <= b.num
Greater(a, b) == ~a.nan /\ ~b.nan /\ a.num > b.num
GreaterEq(a, b) == ~a.nan /\ ~b.nan /\ a.num >= b.num

\* ------------------------------------------------------ helper modules
\* util.makeDate: MISSING and dates pass through, a convertible string
\* becomes its date, anything else is handed back for the caller to reject.
makeDate(value) ==
  IF value = MISSING \/ value.ty = "date" THEN value
  ELSE IF value = Str(DateString) THEN DateOfString
  ELSE value

\* The outcome of a call: a returned value or a thrown error.
Return(v) == [ok |-> TRUE, ret |-> v, error |-> ""]
\* util.fail(message): throws.
fail(message) == [ok |-> FALSE, ret |-> UNDEFINED, error |-> message]
\* util.check(condition, message): throws unless the condition holds,
\* otherwise execution goes on with `rest`.
check(condition, message, rest) == IF condition THEN rest ELSE fail(message)

\* ------------------------------------------------------------- objects
FAMILY == "@value"

NoNode == [family |-> "none", kind |-> "none"]

\* random.exponential / random.normal / random.uniform: a new generator,
\* held by the node that made it, which has not called it yet.
NewGenerator(dist) == [dist |-> dist, draws |-> 0]

\* ExprBase constructor: the fields every node has.
ExprBase(family, kind) == [family |-> family, kind |-> kind]
\* ExprNullary constructor: a node holding one value.
ExprNullary(family, kind, value) ==
  [family |-> family, kind |-> kind, value |-> value]

\* The outcome of a constructor: the node built, or the error thrown.
Built(node) == [ok |-> TRUE, node |-> node, error |-> ""]
Thrown(message) == [ok |-> FALSE, node |-> NoNode, error |-> message]
construct(condition, message, rest) == IF condition THEN rest ELSE Thrown(message)

\* other instanceof <the class of kind `kind`>
InstanceOf(other, kind) == other.family = FAMILY /\ other.kind = kind


\* -------------------------------------------------------- constructors
ValueAbsent == Built(ExprBase(FAMILY, "absent"))

ValueMissing == Built(ExprBase(FAMILY, "missing"))

ValueRowNum == Built(ExprBase(FAMILY, "rownum"))

\* ValueColumn with the test `name &&` left out.
ValueColumn_AnyString(name) ==
  construct(TypeOf(name) = "string",
            "Column name must be string",
            Built(ExprNullary(FAMILY, "column", name)))

ValueColumn(name) ==
  construct(Truthy(name) /\ TypeOf(name) = "string",
            "Column name must be string",
            Built(ExprNullary(FAMILY, "column", name)))

ValueDatetime(value) ==
  LET converted == makeDate(value) IN
  construct(converted = MISSING \/ converted.ty = "date",
            "Datetime value must be MISSING, date, or convertible string",
            Built(ExprNullary(FAMILY, "datetime", converted)))

ValueLogical(value) ==
  construct(value = MISSING \/ TypeOf(value) = "boolean",
            "Logical value must be MISSING or true/false",
            Built(ExprNullary(FAMILY, "logical", value)))

ValueNumber(value) ==
  construct(value = MISSING \/ TypeOf(value) = "number",
            "Numeric value must be missing or number",
            Built(ExprNullary(FAMILY, "number", value)))

\* ValueText testing `value &&` as ValueColumn does.
ValueText_NonEmpty(value) ==
  construct(value = MISSING \/ (Truthy(value) /\ TypeOf(value) = "string"),
            "String value must be missing or string",
            Built(ExprNullary(FAMILY, "text", value)))

ValueText(value) ==
  construct(value = MISSING \/ TypeOf(value) = "string",
            "String value must be missing or string",
            Built(ExprNullary(FAMILY, "text", value)))

ValueExponential(rate) ==
  construct(TypeOf(rate) = "number" /\ Greater(rate, Num(0)),
            "Rate must be positive number",
            Built([family |-> FAMILY, kind |-> "exponential", value |-> rate,
                   generator |-> NewGenerator("exponential")]))

ValueNormal(mean, stdDev) ==
  construct(TypeOf(mean) = "number",
            "Mean must be a number",
  construct(TypeOf(stdDev) = "number" /\ GreaterEq(stdDev, Num(0)),
            "Standard deviation must be a non-negative number",
            Built([family |-> FAMILY, kind |-> "normal",
                   mean |-> mean, stdDev |-> stdDev,
                   generator |-> NewGenerator("normal")])))

\* ValueUniform testing !(low > high) in place of low <= high.
ValueUniform_NotGreater(low, high) ==
  construct(TypeOf(low) = "number",
            "Low end must be a number",
  construct(TypeOf(high) = "number",
            "High end must be a number",
  construct(~Greater(low, high),
            "Low end must not be greater than high end",
            Built([family |-> FAMILY, kind |-> "uniform",
                   low |-> low, high |-> high,
                   generator |-> NewGenerator("uniform")]))))

ValueUniform(low, high) ==
  construct(TypeOf(low) = "number",
            "Low end must be a number",
  construct(TypeOf(high) = "number",
            "High end must be a number",
  construct(LessEq(low, high),
            "Low end must not be greater than high end",
            Built([family |-> FAMILY, kind |-> "uniform",
                   low |-> low, high |-> high,
                   generator |-> NewGenerator("uniform")]))))

\* --------------------------------------------------------------- equal
\* ExprBase.equal: the same operator.
ExprBase_equal(this, other) ==
  other.family = this.family /\ other.kind = this.kind

\* ExprNullary.equal: the same operator holding the same value.
ExprNullary_equal(this, other) ==
  ExprBase_equal(this, other) /\ this.value = other.value

\* ValueAbsent.equal testing `other instanceof ExprBase`.
ValueAbsent_equal_AnyExpr(this, other) == other.family = FAMILY

ValueAbsent_equal(this, other) == InstanceOf(other, "absent")

\* ValueMissing.equal taking every value that holds MISSING for a Missing.
ValueMissing_equal_ByPayload(this, other) ==
  \/ InstanceOf(other, "missing")
  \/ (other.kind \in {"datetime", "logical", "number", "text"}
        /\ other.value = MISSING)

ValueMissing_equal(this, other) == InstanceOf(other, "missing")

ValueRowNum_equal(this, other) == InstanceOf(other, "rownum")

ValueNormal_equal(this, other) ==
  /\ InstanceOf(other, "normal")
  /\ StrictEqual(this.mean, other.mean)
  /\ StrictEqual(this.stdDev, other.stdDev)

ValueUniform_equal(this, other) ==
  /\ InstanceOf(other, "uniform")
  /\ StrictEqual(this.low, other.low)
  /\ StrictEqual(this.high, other.high)

\* this.equal(other), dispatched on the class of `this`.
equal(this, other) ==
  CASE this.kind = "absent" -> ValueAbsent_equal(this, other)
    [] this.kind = "missing" -> ValueMissing_equal(this, other)
    [] this.kind = "rownum" -> ValueRowNum_equal(this, other)
    [] this.kind = "normal" -> ValueNormal_equal(this, other)
    [] this.kind = "uniform" -> ValueUniform_equal(this, other)
    [] OTHER -> ExprNullary_equal(this, other)

\* ------------------------------------------------------ rows and tables
EmptyCells == [c \in {} |-> MISSING]
Obj(cells) == [ty |-> "object", cells |-> cells]
\* Rows handed to run(): objects with zero, one and two columns, null, and
\* a number.
RowEmpty == Obj(EmptyCells)
RowA == Obj([c \in {"a"} |-> Num(1)])
RowAB == Obj([c \in {"a", "b"} |-> IF c = "a" THEN MISSING ELSE Str("a")])
RowNull == [ty |-> "null", cells |-> EmptyCells]
RowNumber == [ty |-> "number", cells |-> EmptyCells]
Rows == {RowEmpty, RowA, RowAB, RowNull, RowNumber}

\* The table of n rows.
TableOf(n) == [k \in 1 .. n |-> IF k % 2 = 1 THEN RowA ELSE RowAB]
Tables == {TableOf(n) : n \in 0 .. MaxRows}
\* Row indices handed to run(): one below and one above every table's range.
Indices == -1 .. MaxRows

\* ----------------------------------------------------------------- run
\* ValueAbsent.run returning MISSING where it has to fail.
ValueAbsent_run_Missing(this, row, i, data) == Return(MISSING)

ValueAbsent_run(this, row, i, data) == fail("Missing expression")

ValueMissing_run(this, row, i, data) == Return(MISSING)

ValueRowNum_run(this, row, i, data) == Return(Num(i))

\* ValueColumn.run testing i <= data.length.
ValueColumn_run_OffByOne(this, row, i, data) ==
  check(0 <= i /\ i <= Len(data),
        "Row index out of range",
  check(TypeOf(row) = "object",
        "Row must be object",
  IF row.ty = "null" THEN fail("TypeError")
  ELSE
  check(this.value.str \in DOMAIN row.cells,
        "not in row",
        Return(row.cells[this.value.str]))))

ValueColumn_run(this, row, i, data) ==
  check(0 <= i /\ i < Len(data),
        "Row index out of range",
  check(TypeOf(row) = "object",
        "Row must be object",
  IF row.ty = "null" THEN fail("TypeError")
  ELSE
  check(this.value.str \in DOMAIN row.cells,
        "not in row",
        Return(row.cells[this.value.str]))))

ValueDatetime_run(this, row, i, data) == Return(this.value)

ValueLogical_run(this, row, i, data) == Return(this.value)

\* ValueNumber.run testing the row index as ValueColumn.run does.
ValueNumber_run_Checked(this, row, i, data) ==
  check(0 <= i /\ i < Len(data),
        "Row index out of range",
        Return(this.value))

ValueNumber_run(this, row, i, data) == Return(this.value)

ValueText_run(this, row, i, data) == Return(this.value)

\* What one call of a node's generator can return.
Samples(this) ==
  CASE this.kind = "exponential" -> {Num(n) : n \in 0 .. MaxNum}
    [] this.kind = "normal" ->
         IF this.mean.nan THEN {NaN}
         ELSE IF this.stdDev = Num(0) THEN {this.mean}
         ELSE FiniteNums
    [] this.kind = "uniform" ->
         {Num(n) : n \in this.low.num .. this.high.num}
    [] OTHER -> {}

\* this.generator(): the generator advanced by one draw.
Advance(this) == [this EXCEPT !.generator.draws = @ + 1]

\* random.next(): the one random object of the module hands out the next
\* number of its stream to the generator that called it.
random_next(rnd) == [rnd EXCEPT !.calls = @ + 1]

ValueExponential_run(this, row, i, data, sample) == Return(sample)

\* ValueNormal.run returning the mean in place of a draw.
ValueNormal_run_Mean(this, row, i, data, sample) == Return(this.mean)

ValueNormal_run(this, row, i, data, sample) == Return(sample)

\* ValueUniform.run adding the low end to what the generator returned.
ValueUniform_run_Shifted(this, row, i, data, sample) ==
  Return(Num(this.low.num + sample.num))

ValueUniform_run(this, row, i, data, sample) == Return(sample)

\* --------------------------------------------------------- data blocks
\* (blocks/data.js)  A text is the sequence of its characters.
Quote == "\""
Backslash == "\\"

\* Characters typed into a text field, and the texts of at most MaxLen of
\* them a field can hold.
FieldChars == {"a", Quote, Backslash}
FieldTexts == UNION {[1 .. n -> FieldChars] : n \in 0 .. MaxLen}
\* Numbers a number field can hold.
FieldNumbers == -1 .. MaxValue

DigitChars == <<"0", "1", "2", "3", "4", "5", "6", "7", "8", "9">>
RECURSIVE Digits(_)
Digits(n) ==
  IF n < 10 THEN <<DigitChars[n + 1]>>
  ELSE Digits(n \div 10) \o <<DigitChars[(n % 10) + 1]>>
\* `${x}` of an integer x: its decimal digits, after a minus sign if x < 0.
NumberToString(n) == IF n < 0 THEN <<"-">> \o Digits(-n) ELSE Digits(n)

\* block.getFieldValue(name)
getFieldValue(b, name) == b[name]

data_colors(b) ==
  <<"[", "\"", "@", "t", "r", "a", "n", "s", "f", "o", "r", "m", "\"", ",",
    " ", "\"", "d", "a", "t", "a", "\"", ",", " ", "\"", "c", "o", "l",
    "o", "r", "s", "\"", "]">>

data_earthquakes(b) ==
  <<"[", "\"", "@", "t", "r", "a", "n", "s", "f", "o", "r", "m", "\"", ",",
    " ", "\"", "d", "a", "t", "a", "\"", ",", " ", "\"", "e", "a", "r",
    "t", "h", "q", "u", "a", "k", "e", "s", "\"", "]">>

data_penguins(b) ==
  <<"[", "\"", "@", "t", "r", "a", "n", "s", "f", "o", "r", "m", "\"", ",",
    " ", "\"", "d", "a", "t", "a", "\"", ",", " ", "\"", "p", "e", "n",
    "g", "u", "i", "n", "s", "\"", "]">>

data_phish(b) ==
  <<"[", "\"", "@", "t", "r", "a", "n", "s", "f", "o", "r", "m", "\"", ",",
    " ", "\"", "d", "a", "t", "a", "\"", ",", " ", "\"", "p", "h", "i",
    "s", "h", "\"", "]">>

data_sequence(b) ==
  LET column == getFieldValue(b, "COLUMN")
      value == getFieldValue(b, "VALUE")
  IN
    <<"[", "\"", "@", "t", "r", "a", "n", "s", "f", "o", "r", "m", "\"",
      ",", " ", "\"", "s", "e", "q", "u", "e", "n", "c", "e", "\"", ",",
      " ", "\"">>
       \o column \o <<Quote, ",", " ">> \o NumberToString(value) \o <<"]">>

data_user(b) ==
  LET name == getFieldValue(b, "NAME") IN
  <<"[", "\"", "@", "t", "r", "a", "n", "s", "f", "o", "r", "m", "\"", ",",
    " ", "\"", "d", "a", "t", "a", "\"", ",", " ", "\"">>
       \o name \o <<Quote, "]">>

\* ------------------------------------------------------------ JSON text
\* JSON.parse of a text: the grammar of JSON for arrays of strings and
\* integers.  A parsed string is its characters, a parsed number its value.
JsonString(chars) == [ty |-> "string", chars |-> chars, num |-> 0]
JsonNumber(n) == [ty |-> "number", chars |-> <<>>, num |-> n]
\* SyntaxError
NoParse == [ok |-> FALSE, value |-> <<>>, next |-> 0]
Parsed(v, next) == [ok |-> TRUE, value |-> v, next |-> next]

\* The position of the first character that is no space, from pos on.
RECURSIVE SkipSpace(_, _)
SkipSpace(text, pos) ==
  IF pos <= Len(text) /\ text[pos] = " " THEN SkipSpace(text, pos + 1)
  ELSE pos

\* The characters of a string from pos, just after its opening quote, up
\* to its closing quote: a backslash escapes a quote, a backslash or a
\* slash (the escapes b, f, n, r, t, u begin with a character no text of
\* the model holds after a backslash), any other character stands for
\* itself.
RECURSIVE ParseChars(_, _, _)
ParseChars(text, pos, acc) ==
  IF pos > Len(text) THEN NoParse
  ELSE IF text[pos] = Quote THEN Parsed(JsonString(acc), pos + 1)
  ELSE IF text[pos] = Backslash THEN
    IF pos + 1 <= Len(text) /\ text[pos + 1] \in {Quote, Backslash, "/"}
    THEN ParseChars(text, pos + 2, Append(acc, text[pos + 1]))
    ELSE NoParse
  ELSE ParseChars(text, pos + 1, Append(acc, text[pos]))

DigitValue(c) == CHOOSE d \in 0 .. 9 : DigitChars[d + 1] = c
IsDigit(c) == \E d \in 0 .. 9 : DigitChars[d + 1] = c

\* The digits from pos on, read as a decimal number.
RECURSIVE ParseDigits(_, _, _)
ParseDigits(text, pos, acc) ==
  IF pos <= Len(text) /\ IsDigit(text[pos])
  THEN ParseDigits(text, pos + 1, 10 * acc + DigitValue(text[pos]))
  ELSE Parsed(JsonNumber(acc), pos)

\* An integer: an optional minus sign, then 0 or digits that do not begin
\* with 0.
ParseNumber(text, pos) ==
  LET negative == pos <= Len(text) /\ text[pos] = "-"
      first == IF negative THEN pos + 1 ELSE pos
  IN IF first > Len(text) \/ ~IsDigit(text[first]) THEN NoParse
     ELSE IF text[first] = "0" THEN Parsed(JsonNumber(0), first + 1)
     ELSE LET digits == ParseDigits(text, first, 0)
          IN IF negative
             THEN Parsed(JsonNumber(0 - digits.value.num), digits.next)
             ELSE digits

\* A string or a number at pos.
ParseValue(text, pos) ==
  IF pos > Len(text) THEN NoParse
  ELSE IF text[pos] = Quote THEN ParseChars(text, pos + 1, <<>>)
  ELSE ParseNumber(text, pos)

\* The elements of an array from pos, after "[" or ",": a value, then
\* either "," and more elements or "]".
RECURSIVE ParseElements(_, _, _)
ParseElements(text, pos, acc) ==
  LET element == ParseValue(text, SkipSpace(text, pos))
      after == SkipSpace(text, element.next)
  IN IF ~element.ok \/ after > Len(text) THEN NoParse
     ELSE IF text[after] = ","
     THEN ParseElements(text, after + 1, Append(acc, element.value))
     ELSE IF text[after] = "]"
     THEN Parsed(Append(acc, element.value), after + 1)
     ELSE NoParse

\* JSON.parse(text) of a text holding an array and nothing after it.
JSON_parse(text) ==
  LET start == SkipSpace(text, 1)
      elements == ParseElements(text, start + 1, <<>>)
  IN IF start > Len(text) \/ text[start] # "[" THEN NoParse
     ELSE IF SkipSpace(text, start + 1) <= Len(text)
             /\ text[SkipSpace(text, start + 1)] = "]"
     THEN IF SkipSpace(text, SkipSpace(text, start + 1) + 1) > Len(text)
          THEN Parsed(<<>>, Len(text) + 1) ELSE NoParse
     ELSE IF elements.ok /\ SkipSpace(text, elements.next) > Len(text)
     THEN elements
     ELSE NoParse

\* --------------------------------------------------------------- state
\* cur:  the most recent constructor call: its class, its arguments, and
\*       the node it built or the error it threw.
\* last: the most recent method call on the node of cur: its arguments,
\*       its outcome, and the row and table as the call left them (run
\*       assigns to neither).
\* peer: a second node, held next to the node of cur.
\* random: the random object the module requires, from whose methods every
\*       sampling node takes its generator: the number of calls made of
\*       its stream.
\* block, code: the data block being compiled and the text generated.
VARIABLES cur, last, peer, random, block, code

vars == <<cur, last, peer, random, block, code>>

NoCall ==
  [op |-> "none", other |-> NoNode, back |-> FALSE,
   row |-> RowNull, i |-> 0, data |-> TableOf(0),
   rowAfter |-> RowNull, dataAfter |-> TableOf(0),
   ok |-> FALSE, ret |-> UNDEFINED, error |-> "",
   at |-> 0, drawn |-> UNDEFINED]

NoBlock == [type |-> "none", COLUMN |-> <<>>, NAME |-> <<>>, VALUE |-> 0]

Init ==
  /\ cur = [class |-> "none", args |-> <<>>,
            ok |-> FALSE, node |-> NoNode, error |-> ""]
  /\ last = NoCall
  /\ peer = NoNode
  /\ random = [calls |-> 0]
  /\ block = NoBlock
  /\ code = <<>>

\* The record of the call new <class>(args) and its outcome.
New(class, args, outcome) ==
  [class |-> class, args |-> args, ok |-> outcome.ok,
   node |-> outcome.node, error |-> outcome.error]

NewAbsent ==
  /\ cur' = New("ValueAbsent", <<>>, ValueAbsent)
  /\ last' = NoCall
  /\ UNCHANGED <<peer, random, block, code>>

NewMissing ==
  /\ cur' = New("ValueMissing", <<>>, ValueMissing)
  /\ last' = NoCall
  /\ UNCHANGED <<peer, random, block, code>>

NewRowNum ==
  /\ cur' = New("ValueRowNum", <<>>, ValueRowNum)
  /\ last' = NoCall
  /\ UNCHANGED <<peer, random, block, code>>

NewColumn ==
  \E name \in Prims :
    /\ cur' = New("ValueColumn", <<name>>, ValueColumn(name))
    /\ last' = NoCall
    /\ UNCHANGED <<peer, random, block, code>>

NewDatetime ==
  \E value \in Prims :
    /\ cur' = New("ValueDatetime", <<value>>, ValueDatetime(value))
    /\ last' = NoCall
    /\ UNCHANGED <<peer, random, block, code>>

NewLogical ==
  \E value \in Prims :
    /\ cur' = New("ValueLogical", <<value>>, ValueLogical(value))
    /\ last' = NoCall
    /\ UNCHANGED <<peer, random, block, code>>

NewNumber ==
  \E value \in Prims :
    /\ cur' = New("ValueNumber", <<value>>, ValueNumber(value))
    /\ last' = NoCall
    /\ UNCHANGED <<peer, random, block, code>>

NewText ==
  \E value \in Prims :
    /\ cur' = New("ValueText", <<value>>, ValueText(value))
    /\ last' = NoCall
    /\ UNCHANGED <<peer, random, block, code>>

NewExponential ==
  \E rate \in Prims :
    /\ cur' = New("ValueExponential", <<rate>>, ValueExponential(rate))
    /\ last' = NoCall
    /\ UNCHANGED <<peer, random, block, code>>

NewNormal ==
  \E mean \in PairArgs, stdDev \in PairArgs :
    /\ cur' = New("ValueNormal", <<mean, stdDev>>, ValueNormal(mean, stdDev))
    /\ last' = NoCall
    /\ UNCHANGED <<peer, random, block, code>>

NewUniform ==
  \E low \in PairArgs, high \in PairArgs :
    /\ cur' = New("ValueUniform", <<low, high>>, ValueUniform(low, high))
    /\ last' = NoCall
    /\ UNCHANGED <<peer, random, block, code>>

\* Every node a constructor call of the model can build.
Nodes ==
  LET outcomes ==
        {ValueAbsent, ValueMissing, ValueRowNum}
        \cup {ValueColumn(x) : x \in Prims}
        \cup {ValueDatetime(x) : x \in Prims}
        \cup {ValueLogical(x) : x \in Prims}
        \cup {ValueNumber(x) : x \in Prims}
        \cup {ValueText(x) : x \in Prims}
        \cup {ValueExponential(x) : x \in Prims}
        \cup {ValueNormal(x, y) : x \in PairArgs, y \in PairArgs}
        \cup {ValueUniform(x, y) : x \in PairArgs, y \in PairArgs}
  IN {o.node : o \in {p \in outcomes : p.ok}}

\* cur.equal(other), and other.equal(cur) the other way round; other is any
\* node, the node of cur itself included.
Equal ==
  /\ cur.ok
  /\ \E other \in Nodes \cup {cur.node} :
       last' = [NoCall EXCEPT !.op = "equal", !.other = other,
                              !.ok = TRUE,
                              !.ret = Bool(equal(cur.node, other)),
                              !.back = equal(other, cur.node)]
  /\ UNCHANGED <<cur, peer, random, block, code>>

\* The record of the call run(row, i, data) and its outcome; run assigns
\* to neither row nor data.
Run(row, i, data, outcome) ==
  [NoCall EXCEPT !.op = "run", !.row = row, !.i = i, !.data = data,
                 !.rowAfter = row, !.dataAfter = data,
                 !.ok = outcome.ok, !.ret = outcome.ret,
                 !.error = outcome.error]

\* cur.run(row, i, data) of a node without a generator.
RunAbsent ==
  /\ cur.ok
  /\ cur.node.kind = "absent"
  /\ \E row \in Rows, i \in Indices, data \in Tables :
       last' = Run(row, i, data, ValueAbsent_run(cur.node, row, i, data))
  /\ UNCHANGED <<cur, peer, random, block, code>>

RunMissing ==
  /\ cur.ok
  /\ cur.node.kind = "missing"
  /\ \E row \in Rows, i \in Indices, data \in Tables :
       last' = Run(row, i, data, ValueMissing_run(cur.node, row, i, data))
  /\ UNCHANGED <<cur, peer, random, block, code>>

RunRowNum ==
  /\ cur.ok
  /\ cur.node.kind = "rownum"
  /\ \E row \in Rows, i \in Indices, data \in Tables :
       last' = Run(row, i, data, ValueRowNum_run(cur.node, row, i, data))
  /\ UNCHANGED <<cur, peer, random, block, code>>

RunColumn ==
  /\ cur.ok
  /\ cur.node.kind = "column"
  /\ \E row \in Rows, i \in Indices, data \in Tables :
       last' = Run(row, i, data, ValueColumn_run(cur.node, row, i, data))
  /\ UNCHANGED <<cur, peer, random, block, code>>

RunDatetime ==
  /\ cur.ok
  /\ cur.node.kind = "datetime"
  /\ \E row \in Rows, i \in Indices, data \in Tables :
       last' = Run(row, i, data, ValueDatetime_run(cur.node, row, i, data))
  /\ UNCHANGED <<cur, peer, random, block, code>>

RunLogical ==
  /\ cur.ok
  /\ cur.node.kind = "logical"
  /\ \E row \in Rows, i \in Indices, data \in Tables :
       last' = Run(row, i, data, ValueLogical_run(cur.node, row, i, data))
  /\ UNCHANGED <<cur, peer, random, block, code>>

RunNumber ==
  /\ cur.ok
  /\ cur.node.kind = "number"
  /\ \E row \in Rows, i \in Indices, data \in Tables :
       last' = Run(row, i, data, ValueNumber_run(cur.node, row, i, data))
  /\ UNCHANGED <<cur, peer, random, block, code>>

RunText ==
  /\ cur.ok
  /\ cur.node.kind = "text"
  /\ \E row \in Rows, i \in Indices, data \in Tables :
       last' = Run(row, i, data, ValueText_run(cur.node, row, i, data))
  /\ UNCHANGED <<cur, peer, random, block, code>>

\* The record of a run that called the generator: `at` is the number of
\* calls the stream of random had served before, `drawn` what the generator
\* returned.
RunDraw(row, i, data, outcome, at, sample) ==
  [Run(row, i, data, outcome) EXCEPT !.at = at, !.drawn = sample]

\* Rows, and pairs of an index and a table, handed to the run of a sampling
\* node: a row of the table and a row outside every table.
SamplingRows == {RowA, RowNull}
SamplingPlaces == {<<0, TableOf(1)>>, <<-1, TableOf(0)>>}

\* cur.run(row, i, data) of a sampling node: the generator is called once,
\* at most MaxDraws times in all.
RunExponential ==
  /\ cur.ok
  /\ cur.node.kind = "exponential"
  /\ cur.node.generator.draws < MaxDraws
  /\ \E row \in SamplingRows, place \in SamplingPlaces,
        sample \in Samples(cur.node) :
       last' = RunDraw(row, place[1], place[2],
                       ValueExponential_run(cur.node, row, place[1], place[2], sample),
                       random.calls, sample)
  /\ cur' = [cur EXCEPT !.node = Advance(@)]
  /\ random' = random_next(random)
  /\ UNCHANGED <<peer, block, code>>

RunNormal ==
  /\ cur.ok
  /\ cur.node.kind = "normal"
  /\ cur.node.generator.draws < MaxDraws
  /\ \E row \in SamplingRows, place \in SamplingPlaces,
        sample \in Samples(cur.node) :
       last' = RunDraw(row, place[1], place[2],
                       ValueNormal_run(cur.node, row, place[1], place[2], sample),
                       random.calls, sample)
  /\ cur' = [cur EXCEPT !.node = Advance(@)]
  /\ random' = random_next(random)
  /\ UNCHANGED <<peer, block, code>>

RunUniform ==
  /\ cur.ok
  /\ cur.node.kind = "uniform"
  /\ cur.node.generator.draws < MaxDraws
  /\ \E row \in SamplingRows, place \in SamplingPlaces,
        sample \in Samples(cur.node) :
       last' = RunDraw(row, place[1], place[2],
                       ValueUniform_run(cur.node, row, place[1], place[2], sample),
                       random.calls, sample)
  /\ cur' = [cur EXCEPT !.node = Advance(@)]
  /\ random' = random_next(random)
  /\ UNCHANGED <<peer, block, code>>

\* this.run(row, i, data) of a sampling node, dispatched on its class.
run_sampling(this, row, i, data, sample) ==
  CASE this.kind = "exponential" -> ValueExponential_run(this, row, i, data, sample)
    [] this.kind = "normal" -> ValueNormal_run(this, row, i, data, sample)
    [] this.kind = "uniform" -> ValueUniform_run(this, row, i, data, sample)

\* peer.run(row, i, data): the second node is run.
RunPeer ==
  /\ peer.kind \in {"exponential", "normal", "uniform"}
  /\ peer.generator.draws < MaxDraws
  /\ \E sample \in Samples(peer) :
       LET outcome == run_sampling(peer, RowA, 0, TableOf(1), sample) IN
       last' = [NoCall EXCEPT !.op = "runPeer", !.ok = outcome.ok,
                              !.ret = outcome.ret, !.error = outcome.error,
                              !.at = random.calls, !.drawn = sample]
  /\ peer' = Advance(peer)
  /\ random' = random_next(random)
  /\ UNCHANGED <<cur, block, code>>

\* cur.equal(peer), and peer.equal(cur), of the two nodes held.
EqualPeer ==
  /\ cur.ok
  /\ peer # NoNode
  /\ last' = [NoCall EXCEPT !.op = "equal", !.other = peer,
                            !.ok = TRUE,
                            !.ret = Bool(equal(cur.node, peer)),
                            !.back = equal(peer, cur.node)]
  /\ UNCHANGED <<cur, peer, random, block, code>>

\* The value classes: construction, equal, and run of the values that hold
\* no generator.
Next ==
  \/ NewAbsent \/ NewMissing \/ NewRowNum \/ NewColumn \/ NewDatetime
  \/ NewLogical \/ NewNumber \/ NewText
  \/ NewExponential \/ NewNormal \/ NewUniform
  \/ Equal
  \/ RunAbsent \/ RunMissing \/ RunRowNum \/ RunColumn \/ RunDatetime
  \/ RunLogical \/ RunNumber \/ RunText

Spec == Init /\ [][Next]_vars

\* Two sampling nodes, built and held side by side, run in any order.
\* Parameters of the second node.
PeerArgs == {Num(0), Num(1), NaN}

SamplingBuilt ==
  LET calls ==
        {New("ValueExponential", <<x>>, ValueExponential(x)) : x \in Numbers}
        \cup {New("ValueNormal", <<x, y>>, ValueNormal(x, y)) :
                x \in Numbers, y \in Numbers}
        \cup {New("ValueUniform", <<x, y>>, ValueUniform(x, y)) :
                x \in Numbers, y \in Numbers}
  IN {c \in calls : c.ok}

PeerNodes ==
  LET outcomes ==
        {ValueExponential(x) : x \in PeerArgs}
        \cup {ValueNormal(x, y) : x \in PeerArgs, y \in PeerArgs}
        \cup {ValueUniform(x, y) : x \in PeerArgs, y \in PeerArgs}
  IN {o.node : o \in {p \in outcomes : p.ok}}

InitSampling ==
  /\ cur \in SamplingBuilt
  /\ peer \in PeerNodes
  /\ last = NoCall
  /\ random = [calls |-> 0]
  /\ block = NoBlock
  /\ code = <<>>

NextSampling ==
  \/ RunExponential \/ RunNormal \/ RunUniform
  \/ RunPeer
  \/ EqualPeer

SpecSampling == InitSampling /\ [][NextSampling]_vars

\* The data blocks: one block of each type, its fields filled in, is handed
\* to the generator of its type.
InitData ==
  /\ cur = [class |-> "none", args |-> <<>>,
            ok |-> FALSE, node |-> NoNode, error |-> ""]
  /\ last = NoCall
  /\ peer = NoNode
  /\ random = [calls |-> 0]
  /\ block = NoBlock
  /\ code = <<>>

GenerateColors ==
  /\ block' = [NoBlock EXCEPT !.type = "data_colors"]
  /\ code' = data_colors(block')
  /\ UNCHANGED <<cur, last, peer, random>>

GenerateEarthquakes ==
  /\ block' = [NoBlock EXCEPT !.type = "data_earthquakes"]
  /\ code' = data_earthquakes(block')
  /\ UNCHANGED <<cur, last, peer, random>>

GeneratePenguins ==
  /\ block' = [NoBlock EXCEPT !.type = "data_penguins"]
  /\ code' = data_penguins(block')
  /\ UNCHANGED <<cur, last, peer, random>>

GeneratePhish ==
  /\ block' = [NoBlock EXCEPT !.type = "data_phish"]
  /\ code' = data_phish(block')
  /\ UNCHANGED <<cur, last, peer, random>>

GenerateSequence ==
  /\ \E column \in FieldTexts, n \in FieldNumbers :
       block' = [NoBlock EXCEPT !.type = "data_sequence",
                                !.COLUMN = column, !.VALUE = n]
  /\ code' = data_sequence(block')
  /\ UNCHANGED <<cur, last, peer, random>>

GenerateUser ==
  /\ \E name \in FieldTexts :
       block' = [NoBlock EXCEPT !.type = "data_user", !.NAME = name]
  /\ code' = data_user(block')
  /\ UNCHANGED <<cur, last, peer, random>>

NextData ==
  \/ GenerateColors \/ GenerateEarthquakes \/ GeneratePenguins
  \/ GeneratePhish \/ GenerateSequence \/ GenerateUser

SpecData == InitData /\ [][NextData]_vars

\* ============================================================== claims
Sampling == {"exponential", "normal", "uniform"}
\* A node as its constructor left it: nothing drawn from its generator.
Fresh(node) ==
  IF node.kind \in Sampling THEN [node EXCEPT !.generator.draws = 0] ELSE node
\* Two nodes of the same variant built from the same payload.
SameConstruction(a, b) == Fresh(a) = Fresh(b)

\* C1: equal is reflexive: a constructed value is equal to itself and to a
\* value of the same variant built from the same payload.
C1_EqualReflexive ==
  (last.op = "equal" /\ SameConstruction(cur.node, last.other))
    => last.ret = Bool(TRUE)

\* C2: equal is variant-discriminating: values of different variants are
\* never equal, in either direction, whatever their payloads.
C2_VariantDiscriminating ==
  (last.op = "equal" /\ cur.node.kind # last.other.kind)
    => (last.ret = Bool(FALSE) /\ ~last.back)

\* Number(MISSING) was compared with Logical(MISSING).
C2_Witness ==
  /\ last.op = "equal"
  /\ cur.class = "ValueNumber" /\ cur.args = <<MISSING>>
  /\ last.other = ValueLogical(MISSING).node
  /\ last.ret = Bool(FALSE)

\* C3: equal is symmetric: v.equal(w) and w.equal(v) give the same result.
C3_EqualSymmetric ==
  last.op = "equal" => last.ret = Bool(last.back)

\* Uniform(0, 1) was compared with another Uniform(0, 1), equal both ways.
C3_Witness ==
  /\ last.op = "equal"
  /\ cur.class = "ValueUniform" /\ cur.args = <<Num(0), Num(1)>>
  /\ last.other = ValueUniform(Num(0), Num(1)).node
  /\ last.ret = Bool(TRUE) /\ last.back

\* C4: Absent can never be evaluated, and is equal exactly to an Absent.
C4_AbsentNeverRuns ==
  /\ (last.op = "run" /\ cur.node.kind = "absent")
       => (~last.ok /\ last.ret = UNDEFINED /\ last.error # "")
  /\ (last.op = "equal" /\ cur.node.kind = "absent")
       => last.ret = Bool(last.other.kind = "absent")

\* An Absent was run on a row inside its table.
C4_Witness ==
  /\ last.op = "run"
  /\ cur.node.kind = "absent"
  /\ last.i = 0 /\ Len(last.data) = 1 /\ last.row = RowA
  /\ ~last.ok

\* C5: RowNum yields the 1-based row number: on the row of index i, with i
\* in [0, table.length), it returns i + 1.
C5_RowNumOneBased ==
  (last.op = "run" /\ cur.node.kind = "rownum"
     /\ 0 <= last.i /\ last.i < Len(last.data))
    => (last.ok /\ last.ret = Num(last.i + 1))

C7_ColumnLateBound ==
  /\ cur.class = "ValueColumn" =>
       /\ cur.ok <=> (cur.args[1].ty = "string" /\ cur.args[1].str # "")
       /\ cur.ok => cur.node.value = cur.args[1]
       /\ ~cur.ok => cur.node = NoNode
  /\ (cur.class = "ValueColumn" /\ cur.ok
        /\ \E row \in Rows : cur.node.value.str \in DOMAIN row.cells) =>
       /\ ENABLED (RunColumn /\ last'.ok)
       /\ ENABLED (RunColumn /\ ~last'.ok)

\* Column("b"), built without any table, failed on a row that has no b.
C7_Witness ==
  /\ cur.class = "ValueColumn" /\ cur.ok /\ cur.args = <<Str("b")>>
  /\ last.op = "run"
  /\ last.row = RowA /\ last.i = 0 /\ Len(last.data) = 1
  /\ ~last.ok /\ last.error = "not in row"

\* A number other than NaN.
IsFinite(x) == x.ty = "number" /\ ~x.nan
IsNumber(x) == x.ty = "number"

\* C8 as stated: Uniform fails exactly when low > high or a bound is not a
\* number, Exponential exactly when rate is not a number or rate <= 0,
\* Normal exactly when mean or stdDev is not a number or stdDev < 0; every
\* other combination constructs.
C8_Original ==
  /\ cur.class = "ValueUniform" =>
       (~cur.ok <=>
          \/ ~IsNumber(cur.args[1]) \/ ~IsNumber(cur.args[2])
          \/ (IsFinite(cur.args[1]) /\ IsFinite(cur.args[2])
                /\ cur.args[1].num > cur.args[2].num))
  /\ cur.class = "ValueExponential" =>
       (~cur.ok <=>
          \/ ~IsNumber(cur.args[1])
          \/ (IsFinite(cur.args[1]) /\ cur.args[1].num <= 0))
  /\ cur.class = "ValueNormal" =>
       (~cur.ok <=>
          \/ ~IsNumber(cur.args[1]) \/ ~IsNumber(cur.args[2])
          \/ (IsFinite(cur.args[2]) /\ cur.args[2].num < 0))

\* C8 as amended: Uniform constructs exactly when both bounds are numbers
\* other than NaN with low <= high, Exponential exactly when rate is a
\* number other than NaN with rate > 0, Normal exactly when mean is a number
\* (NaN included) and stdDev a number other than NaN with stdDev >= 0; a
\* failed construction leaves no value and no generator, a successful one
\* keeps the parameters and owns a generator nothing was drawn from.
C8_SamplingValidation ==
  /\ cur.class = "ValueUniform" =>
       (cur.ok <=>
          /\ IsFinite(cur.args[1]) /\ IsFinite(cur.args[2])
          /\ cur.args[1].num <= cur.args[2].num)
  /\ cur.class = "ValueExponential" =>
       (cur.ok <=> (IsFinite(cur.args[1]) /\ cur.args[1].num > 0))
  /\ cur.class = "ValueNormal" =>
       (cur.ok <=>
          /\ IsNumber(cur.args[1])
          /\ IsFinite(cur.args[2]) /\ cur.args[2].num >= 0)
  /\ cur.class \in {"ValueUniform", "ValueExponential", "ValueNormal"} =>
       /\ ~cur.ok => (cur.node = NoNode /\ cur.error # "")
       /\ cur.ok => cur.node.generator.draws \in 0 .. MaxDraws
       /\ (cur.ok /\ last.op = "none") => cur.node.generator.draws = 0

\* Uniform(NaN, 0) was refused: neither bound is of another type than
\* number, and NaN > 0 is false.
C8_Witness ==
  /\ cur.class = "ValueUniform"
  /\ cur.args = <<NaN, Num(0)>>
  /\ ~cur.ok /\ cur.node = NoNode

\* C9: constants validate the kind of their payload at construction:
\* Number takes exactly MISSING or a number, Logical MISSING or a boolean,
\* Text MISSING or a string, Datetime MISSING, a date or a string that
\* converts to a date; any other payload fails and builds no value.
C9_ConstantValidation ==
  LET arg == cur.args[1] IN
  /\ cur.class = "ValueNumber" =>
       (cur.ok <=> (arg = MISSING \/ arg.ty = "number"))
  /\ cur.class = "ValueLogical" =>
       (cur.ok <=> (arg = MISSING \/ arg.ty = "boolean"))
  /\ cur.class = "ValueText" =>
       (cur.ok <=> (arg = MISSING \/ arg.ty = "string"))
  /\ cur.class = "ValueDatetime" =>
       (cur.ok <=> (arg = MISSING \/ arg.ty = "date" \/ arg = Str(DateString)))
  /\ cur.class \in {"ValueNumber", "ValueLogical", "ValueText", "ValueDatetime"} =>
       (~cur.ok => (cur.node = NoNode /\ cur.error # ""))

\* Text("") was built, and holds the empty string.
C9_Witness ==
  /\ cur.class = "ValueText"
  /\ cur.args = <<Str("")>>
  /\ cur.ok /\ cur.node.value = Str("")

\* The payload a constant stored when it was built from cur.args.
StoredPayload ==
  IF cur.class = "ValueDatetime" /\ cur.args[1] = Str(DateString)
  THEN DateOfString
  ELSE cur.args[1]

ConstantKinds == {"datetime", "logical", "number", "text"}

\* C10: constants are pure: run returns the payload stored at construction
\* for every row, index and table, Missing.run returns MISSING, and a run
\* leaves the node as it was, so repeated runs return the same.
C10_ConstantsPure ==
  /\ [](/\ (last.op = "run" /\ cur.node.kind \in ConstantKinds)
             => (last.ok /\ last.ret = StoredPayload)
        /\ (last.op = "run" /\ cur.node.kind = "missing")
             => (last.ok /\ last.ret = MISSING)
        /\ (cur.ok /\ cur.node.kind \in ConstantKinds)
             => cur.node.value = StoredPayload)
  /\ [][(cur.ok /\ cur.node.kind \in ConstantKinds \cup {"missing"}
           /\ last'.op = "run")
          => cur' = cur]_vars

\* Number(1) was run with index -1 on the empty table and returned 1.
C10_Witness ==
  /\ last.op = "run"
  /\ cur.class = "ValueNumber" /\ cur.args = <<Num(1)>>
  /\ last.i = -1 /\ Len(last.data) = 0
  /\ last.ok /\ last.ret = Num(1)

\* C11: Uniform(low, high) with low <= high constructs, low = high
\* included, and every run returns a number of [low, high]: Uniform(n, n)
\* returns n on every run.
C11_UniformInRange ==
  /\ \A low \in FiniteNums, high \in FiniteNums :
       low.num <= high.num =>
         /\ ValueUniform(low, high).ok
         /\ ValueUniform(low, high).node.low = low
         /\ ValueUniform(low, high).node.high = high
  /\ (cur.class = "ValueUniform" /\ last.op = "run") =>
       /\ last.ok /\ IsFinite(last.ret)
       /\ cur.args[1].num <= last.ret.num
       /\ last.ret.num <= cur.args[2].num
       /\ cur.args[1] = cur.args[2] => last.ret = cur.args[1]

\* Uniform(2, 2) was run twice and the second run returned 2.
C11_Witness ==
  /\ cur.class = "ValueUniform" /\ cur.args = <<Num(2), Num(2)>>
  /\ cur.node.generator.draws = 2
  /\ last.op = "run" /\ last.ok /\ last.ret = Num(2)

C13_FreshSample ==
  /\ [](/\ (last.op = "run" /\ cur.node.kind \in Sampling) =>
             (last.ok /\ last.ret = last.drawn /\ last.error = "")
        /\ cur.node.kind \in Sampling =>
             \A row \in SamplingRows, place \in SamplingPlaces,
                sample \in Samples(cur.node) :
               run_sampling(cur.node, row, place[1], place[2], sample)
                 = Return(sample))
  /\ [][(last'.op = "run" /\ cur.node.kind \in Sampling) =>
         /\ cur'.node.generator.draws = cur.node.generator.draws + 1
         /\ Fresh(cur'.node) = Fresh(cur.node)
         /\ last'.ret = last'.drawn]_vars

\* Normal(0, 1), run a second time with index -1 on the empty table,
\* returned the -1 its generator drew.
C13_Witness ==
  /\ cur.class = "ValueNormal" /\ cur.args = <<Num(0), Num(1)>>
  /\ cur.node.generator.draws = 2
  /\ last.op = "run" /\ last.i = -1 /\ Len(last.data) = 0
  /\ last.ok /\ last.drawn = Num(-1) /\ last.ret = Num(-1)

\* C14: equal of two sampling nodes depends on their construction
\* parameters only: two Normals are equal exactly when they have the same
\* mean and the same stdDev, two Uniforms exactly when they have the same
\* low and the same high, and the result is what it was before either
\* node was run.
C14_EqualByParameters ==
  (last.op = "equal" /\ cur.node.kind \in Sampling
     /\ last.other.kind \in Sampling) =>
    /\ (cur.node.kind = "normal" /\ last.other.kind = "normal") =>
         (last.ret = Bool(/\ cur.node.mean = last.other.mean
                          /\ cur.node.stdDev = last.other.stdDev))
    /\ (cur.node.kind = "uniform" /\ last.other.kind = "uniform") =>
         (last.ret = Bool(/\ cur.node.low = last.other.low
                          /\ cur.node.high = last.other.high))
    /\ last.ret = Bool(equal(Fresh(cur.node), Fresh(last.other)))

\* The characters of a word.
Transform == <<"@", "t", "r", "a", "n", "s", "f", "o", "r", "m">>
Data == <<"d", "a", "t", "a">>
Sequence == <<"s", "e", "q", "u", "e", "n", "c", "e">>
DatasetName ==
  [data_colors |-> <<"c", "o", "l", "o", "r", "s">>,
   data_earthquakes |->
     <<"e", "a", "r", "t", "h", "q", "u", "a", "k", "e", "s">>,
   data_penguins |-> <<"p", "e", "n", "g", "u", "i", "n", "s">>,
   data_phish |-> <<"p", "h", "i", "s", "h">>]

\* C15: the text every data block compiles to parses as a JSON array that
\* begins with "@transform": "data" and the name of the dataset for a
\* built-in dataset block, "data" and the name entered, whatever its
\* characters, for the user-data block, "sequence", the column entered and
\* the value entered for the sequence block.
C15_DataBlocksJson ==
  block.type # "none" =>
    /\ JSON_parse(code).ok
    /\ JSON_parse(code).value =
         CASE block.type = "data_user" ->
                <<JsonString(Transform), JsonString(Data),
                  JsonString(block.NAME)>>
           [] block.type = "data_sequence" ->
                <<JsonString(Transform), JsonString(Sequence),
                  JsonString(block.COLUMN), JsonNumber(block.VALUE)>>
           [] OTHER ->
                <<JsonString(Transform), JsonString(Data),
                  JsonString(DatasetName[block.type])>>
=============================================================================
